---- MODULE Spec2Model ----
(***************************************************************************)
(* State-machine model of the Web-Scrapers repository.                     *)
(*                                                                         *)
(* Four entry points are modelled, two per pipeline:                       *)
(*   chart pipeline   : scrape_billboard_hot_100 (src/scrapers.py) and     *)
(*                      Hot100Scraper.scrape (src/scrapers/billboard.py)   *)
(*   catalog pipeline : scrape_subjects (src/scrapers/cornell_scraper.py)  *)
(*                      CornellCoursesScraper.scrape                       *)
(*                      (src/scrapers/cornell.py)                          *)
(* Init chooses the entry point and its arguments; every later step is one *)
(* loop iteration (or one straight-line block) of the chosen entry point.  *)
(* The web site is the environment: what a fetched page contains is chosen *)
(* nondeterministically at the step that fetches it.                       *)
(*                                                                         *)
(* Dates are proleptic Gregorian ordinals (datetime.date.toordinal()), so  *)
(* that date arithmetic is integer arithmetic.  Text is a string, read     *)
(* character by character where the code parses or tests it.               *)
(***************************************************************************)
EXTENDS Integers, Sequences, FiniteSets, TLC

VARIABLES
    impl,           \* which entry point runs
    pc,             \* position of the run: "start", "loop", "index", "subjects", "courses", "done", "error"
    error,          \* the exception that ended the run, or None
    sink,           \* rows of the output file / dataset, in write order
    trace,          \* network and pacing events issued so far, in order
    min_date,       \* chart: lower bound of the traversal
    max_date,       \* chart: the max_date argument
    date,           \* chart: traversal cursor
    charts_fetched, \* chart: iteration counter
    song_frags,     \* chart: song fragments of the last parsed page (song_list)
    song_data,      \* chart: records built from the last parsed page
    semester,       \* catalog: semester token (as passed, then as upper-cased)
    subjects,       \* catalog: subject filter argument
    subject_links,  \* catalog: ordered keys of the subject_links dict
    subj_done,      \* catalog: number of subject pages already fetched
    course_links,   \* catalog: flat list of collected course links
    course_done,    \* catalog: number of course pages already processed
    course_page     \* catalog: the last course page parsed (soup), or Absent

vars == <<impl, pc, error, sink, trace, min_date, max_date, date, charts_fetched,
          song_frags, song_data, semester, subjects, subject_links,
          subj_done, course_links, course_done, course_page>>

chartVars == <<min_date, max_date, date, charts_fetched, song_frags, song_data>>
catalogVars == <<semester, subjects, subject_links, subj_done, course_links, course_done,
                 course_page>>

None == "None"

ChartImpls == {"scrape_billboard_hot_100", "Hot100Scraper"}
CatalogImpls == {"scrape_subjects", "CornellCoursesScraper"}
ClassImpls == {"Hot100Scraper", "CornellCoursesScraper"}

\* ------------------------------------------------------------------ bounds
\* First max_date tried; the seven consecutive days from it cover every weekday.
FirstDay == 15
\* Largest distance, in days, between a requested date and the canonical
\* chart date the fetched page reports.
MaxDrift == 1
\* Cap on loop iterations of the chart pipeline (charts_fetched).
MaxFetches == 3

\* ------------------------------------------------------------ chart: dates
\* datetime.date.weekday(): Monday = 0 .. Sunday = 6; ordinal 1 is a Monday.
weekday(d) == (d + 6) % 7

\* Mutant: the weekday taken from isoweekday() (Monday = 1 .. Sunday = 7).
NextSaturday_isoweekday(d) == d + ((12 - (weekday(d) + 1)) % 7)

\* date += datetime.timedelta((12 - date.weekday()) % 7)
NextSaturday(d) == d + ((12 - weekday(d)) % 7)

\* datetime.timedelta(weeks=1)
week_delta == 7

\* ------------------------------------------------- chart: text and parsing
\* Text is a string; the character at position i of s is SubSeq(s, i, i).
Digits == "0123456789"

\* The value of a decimal digit character.
DigitVal(c) == (CHOOSE i \in 1..10 : SubSeq(Digits, i, i) = c) - 1

\* int(s) for a non-empty string of decimal digits.
RECURSIVE int(_)
int(s) == IF Len(s) = 0 THEN 0
          ELSE 10 * int(SubSeq(s, 1, Len(s) - 1)) + DigitVal(SubSeq(s, Len(s), Len(s)))

\* An optional value: Absent is Python's None, Some(x) a present value x.
Absent == <<>>
Some(x) == <<x>>

\* Strings of decimal digits that occur on chart pages.
NumStrings == {"2", "10"}

\* The placeholder the site prints for "no rank last week".
Dash == "-"

\* A song's chart-list-item__stats sub-fragment.
Stats == [last_week : NumStrings \cup {Dash},
          weeks_at_one : NumStrings,
          weeks_on_chart : NumStrings]

\* A chart-list-item fragment (song).
Fragments == [data_rank : NumStrings, data_title : {"title"}, data_artist : {"artist"},
              stats : {Absent} \cup {Some(st) : st \in Stats}]

features_chart == <<"Position", "Title", "Artist", "Last Week", "Peak Position",
                    "Weeks on Chart", "Chart Date">>

\* Mutant: a debut is given 0 weeks on the chart.
SongInfo_debutWeeksZero(song, chart_date) ==
    LET Position == int(song.data_rank)
        extra_info == song.stats
    IN  IF extra_info = Absent
        THEN [Position |-> Position, Title |-> song.data_title, Artist |-> song.data_artist,
              LastWeek |-> Absent, PeakPosition |-> Position, WeeksOnChart |-> 0,
              ChartDate |-> chart_date]
        ELSE LET last_week == extra_info[1].last_week
             IN  [Position |-> Position, Title |-> song.data_title, Artist |-> song.data_artist,
                  LastWeek |-> IF last_week # Dash THEN Some(int(last_week)) ELSE Absent,
                  PeakPosition |-> int(extra_info[1].weeks_at_one),
                  WeeksOnChart |-> int(extra_info[1].weeks_on_chart),
                  ChartDate |-> chart_date]

\* Mutant: the "-" placeholder is stored as rank 0 instead of as absent.
SongInfo_dashAsZero(song, chart_date) ==
    LET Position == int(song.data_rank)
        extra_info == song.stats
    IN  IF extra_info = Absent
        THEN [Position |-> Position, Title |-> song.data_title, Artist |-> song.data_artist,
              LastWeek |-> Absent, PeakPosition |-> Position, WeeksOnChart |-> 1,
              ChartDate |-> chart_date]
        ELSE LET last_week == extra_info[1].last_week
             IN  [Position |-> Position, Title |-> song.data_title, Artist |-> song.data_artist,
                  LastWeek |-> IF last_week # Dash THEN Some(int(last_week)) ELSE Some(0),
                  PeakPosition |-> int(extra_info[1].weeks_at_one),
                  WeeksOnChart |-> int(extra_info[1].weeks_on_chart),
                  ChartDate |-> chart_date]

\* The body of `for song in song_list`: one record from one fragment.
SongInfo(song, chart_date) ==
    LET Position == int(song.data_rank)
        extra_info == song.stats
    IN  IF extra_info = Absent
        THEN [Position |-> Position, Title |-> song.data_title, Artist |-> song.data_artist,
              LastWeek |-> Absent, PeakPosition |-> Position, WeeksOnChart |-> 1,
              ChartDate |-> chart_date]
        ELSE LET last_week == extra_info[1].last_week
             IN  [Position |-> Position, Title |-> song.data_title, Artist |-> song.data_artist,
                  LastWeek |-> IF last_week # Dash THEN Some(int(last_week)) ELSE Absent,
                  PeakPosition |-> int(extra_info[1].weeks_at_one),
                  WeeksOnChart |-> int(extra_info[1].weeks_on_chart),
                  ChartDate |-> chart_date]

\* song_data: the records of every fragment of song_list, in page order.
SongData(song_list, chart_date) ==
    [i \in 1..Len(song_list) |-> SongInfo(song_list[i], chart_date)]

\* ------------------------------------------------------------- environment
\* Song lists a chart page may carry (soup.find_all of chart-list-item).
ChartSongLists ==
    {<<>>} \cup {<<f>> : f \in Fragments}
           \cup {<<f, g>> : f \in {x \in Fragments : x.stats = Absent /\ x.data_rank = "2"},
                            g \in {x \in Fragments : x.stats # Absent /\ x.data_rank = "10"
                                                      /\ x.stats[1].last_week = Dash
                                                      /\ x.stats[1].weeks_at_one = "2"
                                                      /\ x.stats[1].weeks_on_chart = "10"}}

\* Canonical chart dates a page fetched for date d may report.
CanonicalDates(d) == (d - MaxDrift)..(d + MaxDrift)

\* max_date arguments: one of each weekday.
MaxDates == FirstDay..(FirstDay + 6)

\* min_date arguments, relative to max_date.
MinOffsets == {-3, 0, 3, 7}

\* ------------------------------------------------------------------- sink
HeaderRow(features) == [kind |-> "header", fields |-> features]
DataRow(rec) == [kind |-> "row", rec |-> rec]

\* csv.DictWriter(csv_file, features).writeheader() on a file opened with mode 'w'.
OpenAndWriteHeader(features) == <<HeaderRow(features)>>

\* writer.writerows(song_data) / DataScraper.append_rows(song_data)
AppendRows(s, rows) == s \o [i \in 1..Len(rows) |-> DataRow(rows[i])]

\* DataScraper.__init__(base_url, features): the dataset starts with its schema row.
DataScraperInit(features) == <<HeaderRow(features)>>

\* ------------------------------------------------------------ trace events
FetchEv(kind, key) == [ev |-> kind, key |-> key]
SleepEv == [ev |-> "sleep", key |-> "delay"]
UnitEv(rows) == [ev |-> "unit", key |-> rows]

\* DataScraper._delay(): pause before the request.
Delay(t) == Append(t, SleepEv)

\* time.sleep(2) at the end of an iteration of scrape_billboard_hot_100.
Sleep(t) == Append(t, SleepEv)

\* --------------------------------------------------------- chart: actions
\* Lines up to the loop: open the sink (function version), move the cursor to
\* the starting Saturday, leave at once if it is below min_date (class version).
ChartStart ==
    /\ impl \in ChartImpls
    /\ pc = "start"
    /\ date' = NextSaturday(max_date)
    /\ sink' = IF impl = "scrape_billboard_hot_100"
               THEN OpenAndWriteHeader(features_chart) ELSE sink
    /\ pc' = IF impl = "Hot100Scraper" /\ date' < min_date THEN "done" ELSE "loop"
    /\ UNCHANGED <<impl, error, trace, min_date, max_date, charts_fetched, song_frags, song_data>>
    /\ UNCHANGED catalogVars

\* Mutant: the loop runs on into the week below min_date.
LoopGuard_weekBelow == date > min_date - week_delta

\* while date >= min_date
LoopGuard == date >= min_date

\* The loop condition fails: the summary is logged and the call returns.
ChartExit ==
    /\ impl \in ChartImpls
    /\ pc = "loop"
    /\ ~LoopGuard
    /\ pc' = "done"
    /\ UNCHANGED <<impl, error, sink, trace>>
    /\ UNCHANGED chartVars
    /\ UNCHANGED catalogVars

\* The events of one request, up to the response.
ChartRequest(t) ==
    IF impl = "Hot100Scraper"
    THEN Append(Delay(t), FetchEv("fetch_chart", date))
    ELSE Append(t, FetchEv("fetch_chart", date))

\* An iteration whose response is falsy: `if not page: continue`.
ChartFetchFail ==
    /\ impl \in ChartImpls
    /\ pc = "loop"
    /\ LoopGuard
    /\ charts_fetched < MaxFetches
    /\ charts_fetched' = charts_fetched + 1
    /\ trace' = ChartRequest(trace)
    /\ UNCHANGED <<impl, pc, error, sink, min_date, max_date, date, song_frags, song_data>>
    /\ UNCHANGED catalogVars

\* An iteration whose request raises ConnectionError: logged and re-raised.
ChartConnectionError ==
    /\ impl \in ChartImpls
    /\ pc = "loop"
    /\ LoopGuard
    /\ charts_fetched < MaxFetches
    /\ charts_fetched' = charts_fetched + 1
    /\ trace' = ChartRequest(trace)
    /\ pc' = "error"
    /\ error' = "ConnectionError"
    /\ UNCHANGED <<impl, sink, min_date, max_date, date, song_frags, song_data>>
    /\ UNCHANGED catalogVars

\* An iteration whose page lacks the date selector button: soup.find returns
\* None and `.contents` raises AttributeError.
ChartMalformedPage ==
    /\ impl \in ChartImpls
    /\ pc = "loop"
    /\ LoopGuard
    /\ charts_fetched < MaxFetches
    /\ charts_fetched' = charts_fetched + 1
    /\ trace' = ChartRequest(trace)
    /\ pc' = "error"
    /\ error' = "AttributeError"
    /\ UNCHANGED <<impl, sink, min_date, max_date, date, song_frags, song_data>>
    /\ UNCHANGED catalogVars

\* A full iteration: fetch, read the canonical date, move the cursor one week
\* below it, build the records, append them, pace.
ChartFetchOk ==
    /\ impl \in ChartImpls
    /\ pc = "loop"
    /\ LoopGuard
    /\ charts_fetched < MaxFetches
    /\ \E chart_date \in CanonicalDates(date), song_list \in ChartSongLists :
         LET rows == SongData(song_list, chart_date)
             t1 == Append(ChartRequest(trace), UnitEv(rows))
         IN  /\ date' = chart_date - week_delta
             /\ song_frags' = song_list
             /\ song_data' = rows
             /\ sink' = AppendRows(sink, rows)
             /\ trace' = IF impl = "scrape_billboard_hot_100" THEN Sleep(t1) ELSE t1
    /\ charts_fetched' = charts_fetched + 1
    /\ UNCHANGED <<impl, pc, error, min_date, max_date>>
    /\ UNCHANGED catalogVars

ChartNext ==
    \/ ChartStart
    \/ ChartExit
    \/ ChartFetchFail
    \/ ChartConnectionError
    \/ ChartMalformedPage
    \/ ChartFetchOk

\* ---------------------------------------------------------- catalog: text
LowerCase == "abcdefghijklmnopqrstuvwxyz"
UpperCase == "ABCDEFGHIJKLMNOPQRSTUVWXYZ"

\* str.upper() of one character.
UpperChar(c) ==
    IF \E i \in 1..26 : SubSeq(LowerCase, i, i) = c
    THEN LET i == CHOOSE j \in 1..26 : SubSeq(LowerCase, j, j) = c
         IN  SubSeq(UpperCase, i, i)
    ELSE c

\* str.upper()
RECURSIVE upper(_)
upper(s) == IF Len(s) = 0 THEN ""
            ELSE UpperChar(SubSeq(s, 1, 1)) \o upper(SubSeq(s, 2, Len(s)))

\* str.isdecimal(): non-empty and every character a decimal digit.
isdecimal(s) ==
    /\ Len(s) > 0
    /\ \A i \in 1..Len(s) : \E d \in 1..10 : SubSeq(Digits, d, d) = SubSeq(s, i, i)

\* Truth value of the attribute reference `semester[2:].isdecimal` (no call):
\* a bound method object, which is always truthy.
isdecimal_method(s) == TRUE

\* s[a:b] and s[a:] for 0 <= a, 0 <= b.
Slice(s, a, b) == SubSeq(s, a + 1, IF b < Len(s) THEN b ELSE Len(s))
SliceFrom(s, a) == SubSeq(s, a + 1, Len(s))

\* sub in s
Contains(s, sub) ==
    \E i \in 0..(Len(s) - Len(sub)) : Slice(s, i, i + Len(sub)) = sub

\* s.index(sub), where sub occurs in s
index(s, sub) ==
    CHOOSE i \in 0..(Len(s) - Len(sub)) :
        /\ Slice(s, i, i + Len(sub)) = sub
        /\ \A j \in 0..(i - 1) : Slice(s, j, j + Len(sub)) # sub

\* s.replace(old, new) for a one-character old.
RECURSIVE replace(_, _, _)
replace(s, old, new) ==
    IF Len(s) = 0 THEN ""
    ELSE (IF SubSeq(s, 1, 1) = old THEN new ELSE SubSeq(s, 1, 1))
         \o replace(SubSeq(s, 2, Len(s)), old, new)

\* s.lstrip(chars), s.rstrip(chars), s.strip(chars)
RECURSIVE lstrip(_, _)
lstrip(s, chars) ==
    IF Len(s) > 0 /\ Contains(chars, SubSeq(s, 1, 1))
    THEN lstrip(SubSeq(s, 2, Len(s)), chars) ELSE s

RECURSIVE rstrip(_, _)
rstrip(s, chars) ==
    IF Len(s) > 0 /\ Contains(chars, SubSeq(s, Len(s), Len(s)))
    THEN rstrip(SubSeq(s, 1, Len(s) - 1), chars) ELSE s

strip(s, chars) == rstrip(lstrip(s, chars), chars)

\* ---------------------------------------------------- catalog: validation
SeasonCodes == {"FA", "WI", "SP", "SU"}

\* The two structural checks of CornellCoursesScraper.scrape on the
\* upper-cased token: the exception they raise, or None.
ValidateSemester(sem) ==
    IF Slice(sem, 0, 2) \notin SeasonCodes
    THEN "ValueError: must start with FA, WI, SP or SU"
    ELSE IF ~isdecimal_method(SliceFrom(sem, 2)) \/ Len(sem) # 4
         THEN "ValueError: must end in the last 2 digits of the year"
         ELSE None

\* ------------------------------------------------ catalog: record building
features_catalog == <<"Code", "Title", "Credits", "Grading", "Semesters Offered",
                      "Prerequisites", "Corequisites", "Crosslisted",
                      "Distribution Category", "Breadth Requirement",
                      "Forbidden Overlap", "Description">>

FeatureSet == {features_catalog[i] : i \in 1..Len(features_catalog)}

\* Stands for the no-break space U+00A0 of the requisites text.
NBSP == "_"

\* Prerequisites and Corequisites from the catalog-prereq text.
Requisites(raw_text) ==
    LET requisites_text == replace(raw_text, NBSP, " ")
    IN  IF Contains(requisites_text, "Prerequisite:") /\ Contains(requisites_text, "Corequisite:")
        THEN LET prerequisite_index == index(requisites_text, "Prerequisite")
                 corequisite_index == index(requisites_text, "Corequisite")
             IN  [Prerequisites |-> Some(Slice(requisites_text,
                                               prerequisite_index + Len("Prerequisite:"),
                                               corequisite_index)),
                  Corequisites |-> Some(SliceFrom(requisites_text,
                                                  corequisite_index + Len("Corequisite:")))]
        ELSE IF Contains(requisites_text, "Prerequisite:")
        THEN [Prerequisites |-> Some(SliceFrom(requisites_text, Len("Prerequisite:"))),
              Corequisites |-> Absent]
        ELSE IF Contains(requisites_text, "Corequisite:")
        THEN [Prerequisites |-> Absent,
              Corequisites |-> Some(SliceFrom(requisites_text, Len("Corequisite:")))]
        ELSE [Prerequisites |-> Absent, Corequisites |-> Absent]

\* course_info before cleanup: every feature mapped to its text or to Absent.
CourseInfo(page) ==
    LET req == IF page.prereq = Absent
               THEN [Prerequisites |-> Absent, Corequisites |-> Absent]
               ELSE Requisites(page.prereq[1])
    IN  [k \in FeatureSet |->
           CASE k = "Code" -> Some(page.code)
             [] k = "Title" -> Some(page.title)
             [] k = "Description" -> Some(page.descr)
             [] k = "Credits" -> Some(page.credits)
             [] k = "Grading" -> Some(page.grading)
             [] k = "Crosslisted" ->
                  IF Contains(page.enroll_info, "Combined with:")
                  THEN Some(SliceFrom(page.enroll_info,
                                      index(page.enroll_info, "Combined with:")
                                        + Len("Combined with:")))
                  ELSE Absent
             [] k = "Prerequisites" -> req.Prerequisites
             [] k = "Corequisites" -> req.Corequisites
             [] k = "Semesters Offered" -> page.when_offered
             [] k = "Distribution Category" -> page.distr
             [] k = "Forbidden Overlap" ->
                  IF page.forbid = Absent THEN Absent
                  ELSE Some(SliceFrom(page.forbid[1], Len("Forbidden Overlap:")))
             [] k = "Breadth Requirement" -> page.breadth]

\* clean_string / preprocess_value
clean_string(x) == strip(replace(x, "\n", "  "), ".: ")

\* Truth value of a course_info entry: neither None nor the empty string.
Truthy(v) == v # Absent /\ v[1] # ""

\* {key: clean_string(course_info[key]) for key in course_info if course_info[key]}
CleanCourseInfo(course_info) ==
    [k \in {f \in FeatureSet : Truthy(course_info[f])} |-> clean_string(course_info[k][1])]

\* ------------------------------------------------------ catalog: the site
\* Semester tokens passed by the caller.
SemesterTokens == {"FA19", "fa19", "Sp20", "WI2", "SU199", "FAXY", "FA1X", "XX19", "F", ""}

\* Subject codes the index page of a semester may list, in page order.
IndexPages == {<<>>, <<"CS">>, <<"CS", "MATH">>}

\* Subject filters passed by the caller (Absent: no filter argument).
SubjectFilters == {Absent, Some(<<>>), Some(<<"cs">>), Some(<<"MATH", "cs">>),
                   Some(<<"cs", "CS">>), Some(<<"CS", "ART">>)}

\* Course links a subject page may list, in page order.
SubjectPages(code) == {<<>>, <<code \o "/1110">>, <<code \o "/1110", code \o "/2800">>}

\* Course pages, as the texts the structural lookups return.
CoursePages ==
    { [code |-> "CS 2110", title |-> "Object-Oriented Programming",
       descr |-> "Intermediate programming.\nData structures.",
       credits |-> "4", grading |-> "Student Option",
       enroll_info |-> "Combined with: ENGRD 2110",
       prereq |-> Some("Prerequisite:_CS 1110. Corequisite: CS 2800."),
       when_offered |-> Some("Fall, Spring."), distr |-> Some("(MQR-AS)"),
       forbid |-> Some("Forbidden Overlap: CS 1130."), breadth |-> Some("(GB)")],
      [code |-> "MATH 1920", title |-> "Multivariable Calculus",
       descr |-> "Partial derivatives.",
       credits |-> "4", grading |-> "",
       enroll_info |-> "Syllabi: none",
       prereq |-> Some("Prerequisite: MATH 1910."),
       when_offered |-> Some("."), distr |-> Absent,
       forbid |-> Absent, breadth |-> Absent],
      [code |-> "CS 2800", title |-> "Discrete Structures",
       descr |-> "Sets and proofs.",
       credits |-> "3", grading |-> "Letter",
       enroll_info |-> "Syllabi: none",
       prereq |-> Some("Prerequisite/Corequisite: MATH 1920."),
       when_offered |-> Absent, distr |-> Absent,
       forbid |-> Absent, breadth |-> Absent],
      [code |-> "CS 3110", title |-> "Functional Programming",
       descr |-> "Data structures.",
       credits |-> "4", grading |-> "Letter",
       enroll_info |-> "Syllabi: none",
       prereq |-> Some("Prerequisite for majors. Prerequisite: CS 2110. Corequisite: CS 2800."),
       when_offered |-> Absent, distr |-> Absent,
       forbid |-> Absent, breadth |-> Absent] }

\* ------------------------------------------------------- catalog: actions
\* Keys of the dict comprehension over the filter: upper-cased codes in filter
\* order, a repeated code keeping its first place.
RECURSIVE FilterKeys(_)
FilterKeys(codes) ==
    IF Len(codes) = 0 THEN <<>>
    ELSE LET rest == FilterKeys(SubSeq(codes, 1, Len(codes) - 1))
             c == upper(codes[Len(codes)])
         IN  IF \E i \in 1..Len(rest) : rest[i] = c THEN rest ELSE Append(rest, c)

\* [subject.upper() for subject in subjects]
UpperAll(codes) == [i \in 1..Len(codes) |-> upper(codes[i])]

\* Mutant: both versions test the filter's truth value.
FilterApplies_truthy(which, filter) == filter # Absent /\ filter[1] # <<>>

\* Whether the filter is applied: `if subjects:` in scrape_subjects,
\* `if subjects is not None:` in CornellCoursesScraper.scrape.
FilterApplies(which, filter) ==
    IF which = "scrape_subjects"
    THEN filter # Absent /\ filter[1] # <<>>
    ELSE filter # Absent

\* Mutant: the index page is requested before the token is validated.
CatalogValidate_afterFetch ==
    /\ impl = "CornellCoursesScraper"
    /\ pc = "start"
    /\ semester' = upper(semester)
    /\ trace' = Append(trace, FetchEv("fetch_index", semester'))
    /\ LET e == ValidateSemester(semester')
       IN  /\ error' = e
           /\ pc' = IF e = None THEN "index" ELSE "error"
    /\ UNCHANGED <<impl, sink, subjects, subject_links, subj_done,
                   course_links, course_done, course_page>>
    /\ UNCHANGED chartVars

\* "Validate input parameters" of CornellCoursesScraper.scrape.
CatalogValidate ==
    /\ impl = "CornellCoursesScraper"
    /\ pc = "start"
    /\ semester' = upper(semester)
    /\ LET e == ValidateSemester(semester')
       IN  /\ error' = e
           /\ pc' = IF e = None THEN "index" ELSE "error"
    /\ UNCHANGED <<impl, sink, trace, subjects, subject_links, subj_done,
                   course_links, course_done, course_page>>
    /\ UNCHANGED chartVars

\* The run is about to request the index page of the semester.
AtIndexFetch ==
    \/ impl = "scrape_subjects" /\ pc = "start"
    \/ impl = "CornellCoursesScraper" /\ pc = "index"

\* The index page is not found (falsy response).
CatalogIndexNotFound ==
    /\ AtIndexFetch
    /\ trace' = Append(trace, FetchEv("fetch_index", semester))
    /\ pc' = "error"
    /\ error' = IF impl = "scrape_subjects"
                THEN "ValueError: not a valid semester value"
                ELSE "ValueError: page not found"
    /\ UNCHANGED <<impl, sink>>
    /\ UNCHANGED catalogVars
    /\ UNCHANGED chartVars

\* The index page is fetched, its subject list parsed and the filter applied.
CatalogIndex ==
    /\ AtIndexFetch
    /\ trace' = Append(trace, FetchEv("fetch_index", semester))
    /\ \E listed \in IndexPages :
         IF FilterApplies(impl, subjects)
         THEN LET keys == FilterKeys(subjects[1])
              IN  IF \A i \in 1..Len(keys) : \E j \in 1..Len(listed) : listed[j] = keys[i]
                  THEN /\ subject_links' = keys
                       /\ pc' = "subjects"
                       /\ error' = error
                  ELSE /\ subject_links' = listed
                       /\ pc' = "error"
                       /\ error' = "KeyError"
         ELSE /\ subject_links' = listed
              /\ pc' = "subjects"
              /\ error' = error
    /\ subjects' = IF impl = "scrape_subjects" /\ FilterApplies(impl, subjects)
                   THEN Some(UpperAll(subjects[1])) ELSE subjects
    /\ UNCHANGED <<impl, sink, semester, subj_done, course_links, course_done, course_page>>
    /\ UNCHANGED chartVars

\* One iteration of the subject loop: fetch the subject page, collect its links.
CatalogSubject ==
    /\ impl \in CatalogImpls
    /\ pc = "subjects"
    /\ subj_done < Len(subject_links)
    /\ LET subject == subject_links[subj_done + 1]
       IN  /\ trace' = Append(trace, FetchEv("fetch_subject", subject))
           /\ \E links \in SubjectPages(subject) : course_links' = course_links \o links
    /\ subj_done' = subj_done + 1
    /\ UNCHANGED <<impl, pc, error, sink, semester, subjects, subject_links, course_done,
                   course_page>>
    /\ UNCHANGED chartVars

\* Mutant: extraction starts as soon as one subject page has been fetched.
CatalogOpen_afterFirstSubject ==
    /\ impl \in CatalogImpls
    /\ pc = "subjects"
    /\ subj_done >= 1
    /\ sink' = IF impl = "scrape_subjects"
               THEN OpenAndWriteHeader(features_catalog) ELSE sink
    /\ pc' = "courses"
    /\ UNCHANGED <<impl, error, trace>>
    /\ UNCHANGED catalogVars
    /\ UNCHANGED chartVars

\* The subject loop is over: scrape_subjects opens the file and writes the header.
CatalogOpen ==
    /\ impl \in CatalogImpls
    /\ pc = "subjects"
    /\ subj_done = Len(subject_links)
    /\ sink' = IF impl = "scrape_subjects"
               THEN OpenAndWriteHeader(features_catalog) ELSE sink
    /\ pc' = "courses"
    /\ UNCHANGED <<impl, error, trace>>
    /\ UNCHANGED catalogVars
    /\ UNCHANGED chartVars

\* writer.writerow(row) / DataScraper.append_row(row)
AppendRow(s, row) == Append(s, DataRow(row))

\* One iteration of the course loop: fetch, build the record, clean, append.
CatalogCourse ==
    /\ impl \in CatalogImpls
    /\ pc = "courses"
    /\ course_done < Len(course_links)
    /\ \E page \in CoursePages :
         LET row == CleanCourseInfo(CourseInfo(page))
         IN  /\ course_page' = Some(page)
             /\ sink' = AppendRow(sink, row)
             /\ trace' = Append(Append(trace, FetchEv("fetch_course", course_links[course_done + 1])),
                                UnitEv(<<row>>))
    /\ course_done' = course_done + 1
    /\ UNCHANGED <<impl, pc, error, semester, subjects, subject_links, subj_done, course_links>>
    /\ UNCHANGED chartVars

\* A course page lacks an always-present element: the lookup returns None and
\* the attribute access on it raises AttributeError.
CatalogMalformedCourse ==
    /\ impl \in CatalogImpls
    /\ pc = "courses"
    /\ course_done < Len(course_links)
    /\ trace' = Append(trace, FetchEv("fetch_course", course_links[course_done + 1]))
    /\ pc' = "error"
    /\ error' = "AttributeError"
    /\ UNCHANGED <<impl, sink>>
    /\ UNCHANGED catalogVars
    /\ UNCHANGED chartVars

\* The page the run is about to request, when it is about to request one.
NextCatalogFetch ==
    IF AtIndexFetch THEN Some(FetchEv("fetch_index", semester))
    ELSE IF impl \in CatalogImpls /\ pc = "subjects" /\ subj_done < Len(subject_links)
    THEN Some(FetchEv("fetch_subject", subject_links[subj_done + 1]))
    ELSE IF impl \in CatalogImpls /\ pc = "courses" /\ course_done < Len(course_links)
    THEN Some(FetchEv("fetch_course", course_links[course_done + 1]))
    ELSE Absent

\* A request raises ConnectionError, which nothing catches.
CatalogConnectionError ==
    /\ NextCatalogFetch # Absent
    /\ trace' = Append(trace, NextCatalogFetch[1])
    /\ pc' = "error"
    /\ error' = "ConnectionError"
    /\ UNCHANGED <<impl, sink>>
    /\ UNCHANGED catalogVars
    /\ UNCHANGED chartVars

\* The course loop is over: the summary is logged and the call returns.
CatalogDone ==
    /\ impl \in CatalogImpls
    /\ pc = "courses"
    /\ course_done = Len(course_links)
    /\ pc' = "done"
    /\ UNCHANGED <<impl, error, sink, trace>>
    /\ UNCHANGED catalogVars
    /\ UNCHANGED chartVars

CatalogNext ==
    \/ CatalogValidate
    \/ CatalogIndexNotFound
    \/ CatalogIndex
    \/ CatalogSubject
    \/ CatalogOpen
    \/ CatalogCourse
    \/ CatalogMalformedCourse
    \/ CatalogConnectionError
    \/ CatalogDone

CatalogInit ==
    /\ impl \in CatalogImpls
    /\ semester \in SemesterTokens
    /\ subjects \in SubjectFilters
    /\ subject_links = <<>>
    /\ subj_done = 0
    /\ course_links = <<>>
    /\ course_done = 0
    /\ course_page = Absent
    /\ sink = IF impl = "CornellCoursesScraper" THEN DataScraperInit(features_catalog) ELSE <<>>
    /\ min_date = 0
    /\ max_date = 0
    /\ date = 0
    /\ charts_fetched = 0
    /\ song_frags = <<>>
    /\ song_data = <<>>

\* ------------------------------------------------------------------- Init
ChartInit ==
    /\ impl \in ChartImpls
    /\ max_date \in MaxDates
    /\ min_date \in {max_date + o : o \in MinOffsets}
    /\ date = max_date
    /\ charts_fetched = 0
    /\ song_frags = <<>>
    /\ song_data = <<>>
    /\ sink = IF impl = "Hot100Scraper" THEN DataScraperInit(features_chart) ELSE <<>>
    /\ semester = <<>>
    /\ subjects = Absent
    /\ subject_links = <<>>
    /\ subj_done = 0
    /\ course_links = <<>>
    /\ course_done = 0
    /\ course_page = Absent

Init ==
    /\ pc = "start"
    /\ error = None
    /\ trace = <<>>
    /\ (ChartInit \/ CatalogInit)

Next == ChartNext \/ CatalogNext

Spec == Init /\ [][Next]_vars

\* ======================================================================
\* Properties
\* ======================================================================
FetchKinds == {"fetch_chart", "fetch_index", "fetch_subject", "fetch_course"}

IsFetch(e) == e.ev \in FetchKinds

\* The fetch events of a trace, in order.
Fetches(t) == SelectSeq(t, IsFetch)

\* The dates requested by the chart loop, in order.
Requested == LET f == Fetches(trace) IN [i \in 1..Len(f) |-> f[i].key]

\* The exceptions raised by the structural checks on the semester token.
StructuralErrors == {"ValueError: must start with FA, WI, SP or SU",
                     "ValueError: must end in the last 2 digits of the year"}

\* The shape the documentation gives for a semester token: {SE}{YR}.
WellFormedSemester(sem) ==
    /\ Len(sem) = 4
    /\ Slice(sem, 0, 2) \in SeasonCodes
    /\ isdecimal(SliceFrom(sem, 2))

\* C1: once CornellCoursesScraper.scrape is past its validation, the token was
\* accepted (no structural ValueError) if and only if, upper-cased, it is 4
\* characters long, starts with FA, WI, SP or SU and ends in two decimal digits.
C1_AcceptsIffWellFormed ==
    (impl = "CornellCoursesScraper" /\ pc # "start")
        => ((error \notin StructuralErrors) <=> WellFormedSemester(semester))

\* Errors that report a bad argument: a malformed semester token or a subject
\* code the semester does not list.
ValidationErrors == StructuralErrors \cup {"ValueError: not a valid semester value", "KeyError"}

\* C2 (as stated): a validation error is raised before any page fetch.
C2_ValidationErrorBeforeAnyFetch ==
    (impl \in CatalogImpls /\ error \in ValidationErrors) => Fetches(trace) = <<>>

\* C2 (amended): a structural semester-token error is raised before any page
\* fetch; every other error about the arguments (unknown subject code, index
\* page not found) is raised right after the index page fetch, which is then
\* the only fetch of the run.
C2_ValidationErrorBeforeSubjectFetch ==
    impl \in CatalogImpls =>
        /\ error \in StructuralErrors => Fetches(trace) = <<>>
        /\ error \in {"KeyError", "ValueError: not a valid semester value",
                                  "ValueError: page not found"}
              => /\ Len(Fetches(trace)) = 1
                 /\ Fetches(trace)[1].ev = "fetch_index"

\* C2 witness: an unknown subject code was reported, the index page fetched.
C2_Witness_UnknownSubject ==
    /\ impl = "CornellCoursesScraper"
    /\ error = "KeyError"
    /\ Len(trace) = 1

\* C3: an iteration whose fetch fails moves the cursor to an earlier week.
C3_FailedFetchMovesCursor == [][ChartFetchFail => date' < date]_vars

\* C4: the dates requested by successive iterations are strictly descending.
C4_RequestedStrictlyDescending ==
    impl \in ChartImpls =>
        \A i, j \in 1..Len(Requested) : i < j => Requested[i] > Requested[j]

\* Saturday is weekday 5.
IsSaturday(d) == weekday(d) = 5

\* C5: the first date the chart pipeline requests is the earliest Saturday on
\* or after max_date: a Saturday, not before max_date, at most 6 days after it.
C5_FirstRequestIsNextSaturday ==
    (impl \in ChartImpls /\ Len(Requested) > 0) =>
        /\ IsSaturday(Requested[1])
        /\ Requested[1] >= max_date
        /\ Requested[1] - max_date <= 6
        /\ (IsSaturday(max_date) => Requested[1] = max_date)

\* C5 witness: a fetch was issued for a max_date that is a Sunday, the weekday
\* farthest from the following Saturday.
C5_Witness_SundayStart ==
    /\ impl \in ChartImpls
    /\ weekday(max_date) = 6
    /\ Len(Requested) > 0
    /\ Requested[1] = max_date + 6

\* The starting Saturday, found by search rather than by the code's formula.
FirstSaturdayFrom(d) == CHOOSE x \in d..(d + 6) : IsSaturday(x)

\* C6: the chart pipeline never requests a date earlier than min_date; when
\* the starting Saturday is already earlier than min_date it issues no fetch,
\* raises no error, and its only remaining step is the normal return.
C6_NoFetchBelowMinDate ==
    impl \in ChartImpls =>
        /\ \A i \in 1..Len(Requested) : Requested[i] >= min_date
        /\ FirstSaturdayFrom(max_date) < min_date =>
              /\ Requested = <<>>
              /\ error = None
              /\ pc \in {"start", "loop", "done"}
              /\ pc = "loop" => ENABLED ChartExit

\* C6 witness: a run whose starting Saturday is below min_date has returned.
C6_Witness_EmptyRange ==
    /\ impl = "scrape_billboard_hot_100"
    /\ FirstSaturdayFrom(max_date) < min_date
    /\ pc = "done"
    /\ trace = <<>>

\* Whether a trace holds a subject page or course page fetch.
NoSubjectOrCourseFetch ==
    \A i \in 1..Len(trace) : trace[i].ev \notin {"fetch_subject", "fetch_course"}

\* What C7 promises of a finished run.
NothingScraped ==
    /\ NoSubjectOrCourseFetch
    /\ course_links = <<>>
    /\ sink = <<HeaderRow(features_catalog)>>

\* C7 (as stated): a catalog run that was passed an empty subject filter
\* fetches no subject page and no course page, collects no course link and
\* leaves only the header row.
C7_EmptyFilterScrapesNothing ==
    (impl \in CatalogImpls /\ subjects = Some(<<>>) /\ pc = "done") => NothingScraped

\* C7 (amended): a catalog run whose effective subject list is empty (the
\* index page lists no subject or, in CornellCoursesScraper.scrape, the filter
\* passed is empty) fetches no subject page and no course page, collects no
\* course link and leaves only the header row.
C7_EmptySubjectListScrapesNothing ==
    /\ (impl \in CatalogImpls /\ pc = "done" /\ subject_links = <<>>) => NothingScraped
    /\ (impl = "CornellCoursesScraper" /\ pc = "done" /\ subjects = Some(<<>>)) => NothingScraped

\* C7 witness: CornellCoursesScraper.scrape finished with an empty filter.
C7_Witness_EmptyFilterDone ==
    /\ impl = "CornellCoursesScraper"
    /\ subjects = Some(<<>>)
    /\ pc = "done"
    /\ Len(trace) = 1

\* The header row of the running pipeline.
Header == IF impl \in ChartImpls THEN HeaderRow(features_chart)
          ELSE HeaderRow(features_catalog)

\* The records of the units parsed so far, in traversal order.
RECURSIVE UnitRows(_)
UnitRows(t) ==
    IF Len(t) = 0 THEN <<>>
    ELSE LET e == t[Len(t)]
             before == UnitRows(SubSeq(t, 1, Len(t) - 1))
         IN  IF e.ev = "unit" THEN AppendRows(before, e.key) ELSE before

\* C8: from its first step on, abort included, the sink holds one header row
\* followed by the records of the units parsed so far, once each, in order.
C8_SinkIsHeaderThenUnits ==
    pc # "start" => sink = <<Header>> \o UnitRows(trace)

\* C9: a record built from a fragment without a stats sub-fragment has Last
\* Week absent, Peak Position equal to Position and Weeks on Chart equal to 1.
C9_DebutRecord ==
    \A i \in 1..Len(song_data) :
        song_frags[i].stats = Absent =>
            /\ song_data[i].LastWeek = Absent
            /\ song_data[i].PeakPosition = song_data[i].Position
            /\ song_data[i].WeeksOnChart = 1

\* C9 witness: a record was built from a fragment without stats ranked 10.
C9_Witness_DebutAtTen ==
    \E i \in 1..Len(song_data) :
        /\ song_frags[i].stats = Absent
        /\ song_data[i].Position = 10

\* The chart records written to the sink.
ChartRowsWritten == SelectSeq(sink, LAMBDA r : r.kind = "row")

\* C10 (as stated): a written record whose Last Week is absent has Peak
\* Position equal to Position and Weeks on Chart equal to 1.
C10_AbsentLastWeekOnlyForDebut ==
    impl \in ChartImpls =>
        \A i \in 1..Len(ChartRowsWritten) :
            ChartRowsWritten[i].rec.LastWeek = Absent =>
                /\ ChartRowsWritten[i].rec.PeakPosition = ChartRowsWritten[i].rec.Position
                /\ ChartRowsWritten[i].rec.WeeksOnChart = 1

\* C10 (amended): Last Week is absent exactly for a fragment without stats (a
\* debut) and for a fragment whose stats give "-" as last week's rank; in the
\* second case Peak Position and Weeks on Chart are the numbers parsed from
\* the stats, whatever they are.
C10_AbsentLastWeekDebutOrDash ==
    \A i \in 1..Len(song_data) :
        LET st == song_frags[i].stats
            rec == song_data[i]
        IN  /\ rec.LastWeek = Absent <=> (st = Absent \/ st[1].last_week = Dash)
            /\ (st # Absent /\ st[1].last_week = Dash) =>
                  /\ rec.PeakPosition = int(st[1].weeks_at_one)
                  /\ rec.WeeksOnChart = int(st[1].weeks_on_chart)

\* C10 witness: a record with Last Week absent that is not a debut.
C10_Witness_ReEntry ==
    \E i \in 1..Len(song_data) :
        /\ song_data[i].LastWeek = Absent
        /\ song_frags[i].stats # Absent
        /\ song_data[i].WeeksOnChart = 10
        /\ \E n \in 1..Len(sink) : sink[n] = DataRow(song_data[i])

\* The subject page and course page fetches of a trace, in order.
SubjectFetches == SelectSeq(trace, LAMBDA e : e.ev = "fetch_subject")
CourseFetches == SelectSeq(trace, LAMBDA e : e.ev = "fetch_course")

\* Whether a course link belongs to the page of a subject code.
LinkOfSubject(link, code) == Slice(link, 0, Len(code) + 1) = code \o "/"

\* The place, in the selected subjects, of the subject a course link came from.
SubjectPlace(link) == CHOOSE k \in 1..Len(subject_links) : LinkOfSubject(link, subject_links[k])

\* C11: the catalog pipeline collects, then extracts: once a course page is
\* fetched no index or subject page is fetched any more, the page of every
\* selected subject has been fetched by then, in subject order, and course
\* pages are fetched in the order of the collected links, which is subject
\* order.
C11_CollectThenExtract ==
    impl \in CatalogImpls =>
        /\ \A i, j \in 1..Len(trace) :
              (i < j /\ trace[i].ev = "fetch_course") => trace[j].ev \in {"fetch_course", "unit"}
        /\ Len(CourseFetches) > 0 =>
              /\ Len(SubjectFetches) = Len(subject_links)
              /\ \A k \in 1..Len(subject_links) : SubjectFetches[k].key = subject_links[k]
        /\ Len(CourseFetches) <= Len(course_links)
        /\ \A n \in 1..Len(CourseFetches) : CourseFetches[n].key = course_links[n]
        /\ \A m, n \in 1..Len(course_links) :
              m < n => SubjectPlace(course_links[m]) <= SubjectPlace(course_links[n])

\* C11 witness: a finished run over two subjects that fetched three course pages.
C11_Witness_TwoSubjectsThreeCourses ==
    /\ impl \in CatalogImpls
    /\ pc = "done"
    /\ Len(SubjectFetches) = 2
    /\ Len(CourseFetches) = 3

\* The catalog rows passed to the sink.
CatalogRowsWritten == SelectSeq(sink, LAMBDA r : r.kind = "row")

\* C12: every field present in a catalog row passed to the sink is non-empty
\* (a field that is empty after cleanup is left out of the row).
C12_RowFieldsNonEmpty ==
    impl \in CatalogImpls =>
        \A n \in 1..Len(CatalogRowsWritten) :
            \A k \in DOMAIN CatalogRowsWritten[n].rec : CatalogRowsWritten[n].rec[k] # ""

\* The requisites text of the last course page parsed, no-break spaces replaced.
RequisitesText == replace(course_page[1].prereq[1], NBSP, " ")

\* The row built from the last course page parsed.
LastCourseRow == sink[Len(sink)].rec

\* Field k of the row holds the text raw, cleaned; an empty raw is left out.
FieldHolds(row, k, raw) ==
    IF raw = "" THEN k \notin DOMAIN row
    ELSE k \in DOMAIN row /\ row[k] = clean_string(raw)

\* Where the marker starts and where it ends (first occurrence).
MarkerStart(text, marker) == index(text, marker)
MarkerEnd(text, marker) == index(text, marker) + Len(marker)

\* C13: for a requisites text with both markers, Prerequisites is the text
\* from the end of "Prerequisite:" to the start of "Corequisite:" and
\* Corequisites the text after the end of "Corequisite:" (each cleaned).
C13_BothMarkersSplit ==
    (impl \in CatalogImpls /\ course_page # Absent /\ course_page[1].prereq # Absent
       /\ Contains(RequisitesText, "Prerequisite:") /\ Contains(RequisitesText, "Corequisite:"))
    => /\ FieldHolds(LastCourseRow, "Prerequisites",
                     Slice(RequisitesText, MarkerEnd(RequisitesText, "Prerequisite:"),
                           MarkerStart(RequisitesText, "Corequisite:")))
       /\ FieldHolds(LastCourseRow, "Corequisites",
                     SliceFrom(RequisitesText, MarkerEnd(RequisitesText, "Corequisite:")))

\* C14: for a requisites text with exactly one of the two markers, wherever it
\* stands, the marker's field is the whole text after the marker (cleaned) and
\* the other field is absent.
C14_SingleMarkerRemainder ==
    (impl \in CatalogImpls /\ course_page # Absent /\ course_page[1].prereq # Absent)
    => /\ (Contains(RequisitesText, "Prerequisite:") /\ ~Contains(RequisitesText, "Corequisite:"))
          => /\ FieldHolds(LastCourseRow, "Prerequisites",
                           SliceFrom(RequisitesText, MarkerEnd(RequisitesText, "Prerequisite:")))
             /\ "Corequisites" \notin DOMAIN LastCourseRow
       /\ (Contains(RequisitesText, "Corequisite:") /\ ~Contains(RequisitesText, "Prerequisite:"))
          => /\ FieldHolds(LastCourseRow, "Corequisites",
                           SliceFrom(RequisitesText, MarkerEnd(RequisitesText, "Corequisite:")))
             /\ "Prerequisites" \notin DOMAIN LastCourseRow

\* C15: in the chart pipeline a pause lies between any two page fetches.
C15_DelayBetweenFetches ==
    impl \in ChartImpls =>
        \A i, j \in 1..Len(trace) :
            (i < j /\ trace[i].ev = "fetch_chart" /\ trace[j].ev = "fetch_chart")
                => \E k \in (i + 1)..(j - 1) : trace[k].ev = "sleep"

====
